---- MODULE Spec2Model ----
(***************************************************************************)
(* Model of src/assets/dashExtensions_default.js: the six map callbacks    *)
(* function0 .. function5 registered under window.dashExtensions.default.  *)
(*                                                                         *)
(* JavaScript values are tagged records [k, n, s]: k is the type tag, n    *)
(* the numeric payload in thousandths (1000 is the number 1), s the string *)
(* payload.  Objects that the callbacks mutate (hideout.style,             *)
(* hideout.circleOptions) live in a heap addressed by references, so that  *)
(* aliasing between the hideout, the returned value and the argument       *)
(* handed to L.circleMarker is visible.  JavaScript arrays are 0-based;    *)
(* Index reads element i of an array held as a 1-based sequence.           *)
(*                                                                         *)
(* chroma.scale(...).domain(...) and L.circleMarker(...) are calls into    *)
(* libraries outside this file.  The color object produced by the scale is *)
(* kept as an uninterpreted term over the arguments the source passes, and *)
(* a marker records the arguments the source passes to the constructor.    *)
(***************************************************************************)
EXTENDS Integers, Sequences, FiniteSets, TLC

VARIABLES hideout, heap, markers, returned, call, initial

vars == <<hideout, heap, markers, returned, call, initial>>

-----------------------------------------------------------------------------
(* Bounds *)

MaxClasses == 2

-----------------------------------------------------------------------------
(* JavaScript values *)

Undef == [k |-> "undefined", n |-> 0, s |-> ""]

Null == [k |-> "null", n |-> 0, s |-> ""]

Num(n) == [k |-> "number", n |-> n, s |-> ""]

Str(s) == [k |-> "string", n |-> 0, s |-> s]

NaN == [k |-> "number", n |-> 0, s |-> "NaN"]

(* StringToNumber over the strings that occur in the model: "1" is the     *)
(* number 1, the empty string is 0, any other string here is NaN.          *)
NumericStrings == ("1" :> 1000) @@ ("" :> 0)

IsNumericString(s) == s \in DOMAIN NumericStrings

(* ToNumber(v) *)
ToNumber(v) ==
    CASE v.k = "number" -> v
      [] v.k = "string" -> IF IsNumericString(v.s) THEN Num(NumericStrings[v.s]) ELSE NaN
      [] v.k = "null" -> Num(0)
      [] OTHER -> NaN

(* a === b: same type and same value; NaN equals nothing *)
StrictEq(a, b) ==
    /\ a.k = b.k
    /\ a.n = b.n
    /\ a.s = b.s
    /\ a # NaN

(* a == b, the abstract (loose) equality comparison of line 12 *)
LooseEq(a, b) ==
    IF a.k = b.k
    THEN StrictEq(a, b)
    ELSE IF {a.k, b.k} = {"undefined", "null"}
    THEN TRUE
    ELSE IF {a.k, b.k} = {"number", "string"}
    THEN StrictEq(ToNumber(a), ToNumber(b))
    ELSE FALSE

Pad(d, w) ==
    IF w = 3 /\ d < 10 THEN "00" \o ToString(d)
    ELSE IF w = 3 /\ d < 100 THEN "0" \o ToString(d)
    ELSE IF w = 2 /\ d < 10 THEN "0" \o ToString(d)
    ELSE ToString(d)

Abs(n) == IF n < 0 THEN 0 - n ELSE n

(* Number::toString of a number held in thousandths *)
NumberToString(n) ==
    LET a == Abs(n)
        sign == IF n < 0 THEN "-" ELSE ""
        frac == a % 1000
        digits == IF frac = 0 THEN ""
                  ELSE IF frac % 100 = 0 THEN "." \o ToString(frac \div 100)
                  ELSE IF frac % 10 = 0 THEN "." \o Pad(frac \div 10, 2)
                  ELSE "." \o Pad(frac, 3)
    IN sign \o ToString(a \div 1000) \o digits

(* v * 100 of line 40 *)
Times100(v) ==
    LET x == ToNumber(v)
    IN IF x = NaN THEN NaN ELSE Num(x.n * 100)

(* variant: anything but undefined and null formats *)
HasToFixed_Defined(v) == v.k \notin {"undefined", "null"}

(* whether v.toFixed is callable: only numbers carry Number.prototype;     *)
(* reading it off undefined or null throws, and on a string it is          *)
(* undefined, so the call throws a TypeError                               *)
HasToFixed(v) == v.k = "number"

(* v.toFixed(2) for a number v: two decimals, ties away from zero *)
ToFixed2(v) ==
    IF v = NaN THEN "NaN"
    ELSE LET q == (Abs(v.n) + 5) \div 10
         IN (IF v.n < 0 THEN "-" ELSE "") \o ToString(q \div 100) \o "."
                \o Pad(q % 100, 2)

(* ToString(v): what a template literal `${v}` and a property key make of v *)
ToStringJS(v) ==
    CASE v.k = "string" -> v.s
      [] v.k = "number" -> IF v = NaN THEN "NaN" ELSE NumberToString(v.n)
      [] v.k = "null" -> "null"
      [] OTHER -> "undefined"

(* obj[key] on a plain mapping: the value of the key, undefined if absent *)
Get(obj, key) == IF key \in DOMAIN obj THEN obj[key] ELSE Undef

(* array[i], 0-based: undefined past the end *)
Index(array, i) == IF (i + 1) \in DOMAIN array THEN array[i + 1] ELSE Undef

-----------------------------------------------------------------------------
(* Inputs *)

Palette == <<Str("red"), Str("blue"), Str("green")>>

ClassVals == {Num(1000), Str("1"), Str("A")}

PropVals == {Num(1000), Str("1"), Str("A"), Str("B")}

ClassTables == UNION {[1..len -> ClassVals] : len \in 1..MaxClasses}

(* a color table parallel to the longest class table, and a shorter one *)
Colorscales == {Palette, SubSeq(Palette, 1, 1)}

ColorDicts == {("1" :> Str("#111")) @@ ("A" :> Str("#222"))}

InitialFills == {Undef, Str("grey")}

(* features for the color resolvers: the coloring property set to a value, *)
(* or missing                                                              *)
ColorFeatures ==
    {[properties |-> [cls |-> v]] : v \in PropVals}
        \cup {[properties |-> [pid |-> Num(7000)]]}

(* features for the continuous resolvers *)
ScaleFeatures ==
    {[properties |-> [cls |-> Num(1000)]], [properties |-> [pid |-> Num(7000)]]}

LatLngs == {"p1", "p2"}

TipVals == {Num(3456), Str("1"), Null}

(* point features for function2; the last one lacks the numeric properties *)
PointFeatures ==
    {[properties |-> [pid |-> Num(7000), mean_velocity |-> a, mp_label_prob |-> b,
                      trend_class |-> Str("A"), trend_subclass |-> Str("B")]] :
        a \in TipVals, b \in TipVals}
        \cup {[properties |-> [pid |-> Num(7000)]]}

(* aggregate features for function3 *)
AggregateFeatures ==
    {[properties |-> [n_ada_points |-> Num(12000), mean_velocity |-> a,
                      stable_prop |-> sp, label_prob |-> b,
                      ada_major_class |-> Str("A"), ada_major_subclass |-> Null]] :
        a \in {Num(-1500), Str("1")}, b \in {Num(3456), Null},
        sp \in {Num(500), Str("A")}}
        \cup {[properties |-> [pid |-> Num(7000)]]}

Hideouts ==
    {[classes |-> c, colorscale |-> cs, color_dict |-> d, min |-> Num(0),
      max |-> Num(2000), colorProp |-> "cls", style |-> 1, circleOptions |-> 2] :
        c \in ClassTables, cs \in Colorscales, d \in ColorDicts}

InitialHeap(fill) ==
    << [fillColor |-> fill, fillOpacity |-> Num(700), radius |-> Undef],
       [fillColor |-> Undef, fillOpacity |-> Num(1000), radius |-> Num(5000)] >>

NoReturn == [k |-> "undefined", ref |-> 0, latlng |-> "", fillColor |-> Undef]

NoLayer == [tooltip |-> "", bound |-> 0]

-----------------------------------------------------------------------------
(* function0: category resolver, style variant (lines 3-17) *)

RECURSIVE Loop0_SkipLast(_, _, _, _, _)
(* variant: the scan stops one entry short (i < classes.length - 1) *)
Loop0_SkipLast(i, value, classes, colorscale, st) ==
    IF i < Len(classes) - 1
    THEN Loop0_SkipLast(i + 1, value, classes, colorscale,
                        IF LooseEq(value, Index(classes, i))
                        THEN [st EXCEPT !.fillColor = Index(colorscale, i)]
                        ELSE st)
    ELSE st

RECURSIVE Loop0_Break(_, _, _, _, _)
(* variant: the scan leaves the loop at the first match *)
Loop0_Break(i, value, classes, colorscale, st) ==
    IF i < Len(classes)
    THEN IF LooseEq(value, Index(classes, i))
         THEN [st EXCEPT !.fillColor = Index(colorscale, i)]
         ELSE Loop0_Break(i + 1, value, classes, colorscale, st)
    ELSE st

RECURSIVE Loop0(_, _, _, _, _)
(* the for loop of lines 11-15, from index i, on the style object st *)
Loop0(i, value, classes, colorscale, st) ==
    IF i < Len(classes)
    THEN Loop0(i + 1, value, classes, colorscale,
               IF LooseEq(value, Index(classes, i))
               THEN [st EXCEPT !.fillColor = Index(colorscale, i)]
               ELSE st)
    ELSE st

(* variant: the fill color is cleared before the scan *)
function0_Reset(feature, context, h) ==
    LET ho == context.hideout
        value == Get(feature.properties, ho.colorProp)
    IN [heap |-> [h EXCEPT ![ho.style] =
                      Loop0(0, value, ho.classes, ho.colorscale,
                            [h[ho.style] EXCEPT !.fillColor = Undef])],
        feature |-> feature,
        ret |-> [k |-> "ref", ref |-> ho.style, latlng |-> "", fillColor |-> Undef],
        err |-> "none"]

(* variant: the scan works on a copy of the style and returns the copy *)
function0_Fresh(feature, context, h) ==
    LET ho == context.hideout
        value == Get(feature.properties, ho.colorProp)
    IN [heap |-> Append(h, Loop0(0, value, ho.classes, ho.colorscale, h[ho.style])),
        feature |-> feature,
        ret |-> [k |-> "ref", ref |-> Len(h) + 1, latlng |-> "", fillColor |-> Undef],
        err |-> "none"]

function0(feature, context, h) ==
    LET ho == context.hideout
        value == Get(feature.properties, ho.colorProp)
    IN [heap |-> [h EXCEPT ![ho.style] =
                      Loop0(0, value, ho.classes, ho.colorscale, h[ho.style])],
        feature |-> feature,
        ret |-> [k |-> "ref", ref |-> ho.style, latlng |-> "", fillColor |-> Undef],
        err |-> "none"]

-----------------------------------------------------------------------------
(* function1: category resolver, marker variant (lines 18-27) *)

(* L.circleMarker(latlng, options): the marker records the location, the   *)
(* reference of the options object it was handed and the fillColor that    *)
(* object carried at the time of the call                                  *)
CircleMarker(latlng, optionsRef, h) ==
    [k |-> "marker", ref |-> optionsRef, latlng |-> latlng,
     fillColor |-> h[optionsRef].fillColor]

(* variant: the fill color is assigned only when the key is in color_dict *)
function1_KeepOld(feature, latlng, context, h) ==
    LET ho == context.hideout
        key == ToStringJS(Get(feature.properties, ho.colorProp))
        h1 == IF key \in DOMAIN ho.color_dict
              THEN [h EXCEPT ![ho.circleOptions].fillColor = ho.color_dict[key]]
              ELSE h
    IN [heap |-> h1,
        feature |-> feature,
        ret |-> CircleMarker(latlng, ho.circleOptions, h1),
        err |-> "none"]

(* variant: the lookup takes string values only, without key conversion *)
function1_NoCoercion(feature, latlng, context, h) ==
    LET ho == context.hideout
        value == Get(feature.properties, ho.colorProp)
        h1 == [h EXCEPT ![ho.circleOptions].fillColor =
                            IF value.k = "string" THEN Get(ho.color_dict, value.s)
                            ELSE Undef]
    IN [heap |-> h1,
        feature |-> feature,
        ret |-> CircleMarker(latlng, ho.circleOptions, h1),
        err |-> "none"]

function1(feature, latlng, context, h) ==
    LET ho == context.hideout
        value == Get(feature.properties, ho.colorProp)
        h1 == [h EXCEPT ![ho.circleOptions].fillColor =
                            Get(ho.color_dict, ToStringJS(value))]
    IN [heap |-> h1,
        feature |-> feature,
        ret |-> CircleMarker(latlng, ho.circleOptions, h1),
        err |-> "none"]

-----------------------------------------------------------------------------
(* function2, function3: tooltip formatters (lines 28-45) *)

(* line break and indentation between two lines of the template literals *)
Br == "<br>\n                "

(* layer.bindTooltip(text) *)
BindTooltip(layer, text) == [tooltip |-> text, bound |-> layer.bound + 1]

function2(feature, layer, context) ==
    LET p == feature.properties
        mv == Get(p, "mean_velocity")
        lp == Get(p, "mp_label_prob")
    IN IF HasToFixed(mv) /\ HasToFixed(lp)
       THEN [layer |-> BindTooltip(layer,
                          "PID: " \o ToStringJS(Get(p, "pid")) \o Br
                          \o "Mean velocity: " \o ToFixed2(mv) \o "mm/yr" \o Br
                          \o "Label prob: " \o ToFixed2(lp) \o Br
                          \o "Trend class: " \o ToStringJS(Get(p, "trend_class")) \o Br
                          \o "Trend subclass: "
                          \o ToStringJS(Get(p, "trend_subclass")) \o "<br>"),
             feature |-> feature, err |-> "none"]
       ELSE [layer |-> layer, feature |-> feature, err |-> "TypeError"]

function3(feature, layer, context) ==
    LET p == feature.properties
        mv == Get(p, "mean_velocity")
        sp == Times100(Get(p, "stable_prop"))
        lp == Get(p, "label_prob")
    IN IF HasToFixed(mv) /\ HasToFixed(lp)
       THEN [layer |-> BindTooltip(layer,
                          "N active MPs: " \o ToStringJS(Get(p, "n_ada_points")) \o Br
                          \o "Mean velocity: " \o ToFixed2(mv) \o "mm/yr" \o Br
                          \o "Stable prop: " \o ToFixed2(sp) \o "%" \o Br
                          \o "Avg. label prob: " \o ToFixed2(lp) \o Br
                          \o "ADA major class: "
                          \o ToStringJS(Get(p, "ada_major_class")) \o Br
                          \o "ADA major subclass: "
                          \o ToStringJS(Get(p, "ada_major_subclass")) \o "<br>"),
             feature |-> feature, err |-> "none"]
       ELSE [layer |-> layer, feature |-> feature, err |-> "TypeError"]

-----------------------------------------------------------------------------
(* function4, function5: continuous resolver (lines 46-69) *)

(* chroma.scale(colorscale).domain([min, max])(v): the color object the    *)
(* library returns for these arguments, as an uninterpreted term           *)
Csc(colorscale, min, max, v) ==
    [k |-> "chroma", n |-> 0, s |-> "", scale |-> colorscale,
     domain |-> <<min, max>>, at |-> v]

function4(feature, latlng, context, h) ==
    LET ho == context.hideout
        h1 == [h EXCEPT ![ho.circleOptions].fillColor =
                  Csc(ho.colorscale, ho.min, ho.max,
                      Get(feature.properties, ho.colorProp))]
    IN [heap |-> h1,
        feature |-> feature,
        ret |-> CircleMarker(latlng, ho.circleOptions, h1),
        err |-> "none"]

(* variant: the style is replaced by a record holding the fill color only *)
function5_Replace(feature, context, h) ==
    LET ho == context.hideout
    IN [heap |-> [h EXCEPT ![ho.style] =
                      [fillColor |-> Csc(ho.colorscale, ho.min, ho.max,
                                         Get(feature.properties, ho.colorProp)),
                       fillOpacity |-> Undef, radius |-> Undef]],
        feature |-> feature,
        ret |-> [k |-> "ref", ref |-> ho.style, latlng |-> "", fillColor |-> Undef],
        err |-> "none"]

function5(feature, context, h) ==
    LET ho == context.hideout
    IN [heap |-> [h EXCEPT ![ho.style].fillColor =
                      Csc(ho.colorscale, ho.min, ho.max,
                          Get(feature.properties, ho.colorProp))],
        feature |-> feature,
        ret |-> [k |-> "ref", ref |-> ho.style, latlng |-> "", fillColor |-> Undef],
        err |-> "none"]

-----------------------------------------------------------------------------
(* The rendering framework: one callback invocation per step *)

NoFeature == [properties |-> [pid |-> Num(7000)]]

Init ==
    /\ hideout \in Hideouts
    /\ \E fill \in InitialFills : heap = InitialHeap(fill)
    /\ markers = {}
    /\ returned = {}
    /\ call = [fn |-> "none", arg |-> NoFeature, feature |-> NoFeature,
               latlng |-> "", ret |-> NoReturn, err |-> "none", pre |-> Undef,
               layer |-> NoLayer]
    /\ initial = [hideout |-> hideout, heap |-> heap]

(* a style callback: function0 or function5 *)
StyleCall(name, f, r) ==
    /\ heap' = r.heap
    /\ returned' = returned \cup {r.ret.ref}
    /\ call' = [fn |-> name, arg |-> f, feature |-> r.feature, latlng |-> "",
                ret |-> r.ret, err |-> r.err, pre |-> heap[hideout.style].fillColor,
                layer |-> NoLayer]
    /\ UNCHANGED <<hideout, markers, initial>>

(* a pointToLayer callback: function1 or function4 *)
MarkerCall(name, f, l, r) ==
    /\ heap' = r.heap
    /\ markers' = markers \cup {r.ret.ref}
    /\ call' = [fn |-> name, arg |-> f, feature |-> r.feature, latlng |-> l,
                ret |-> r.ret, err |-> r.err,
                pre |-> heap[hideout.circleOptions].fillColor, layer |-> NoLayer]
    /\ UNCHANGED <<hideout, returned, initial>>

(* an onEachFeature callback: function2 or function3, on a fresh layer *)
TooltipCall(name, f, r) ==
    /\ call' = [fn |-> name, arg |-> f, feature |-> r.feature, latlng |-> "",
                ret |-> NoReturn, err |-> r.err, pre |-> Undef, layer |-> r.layer]
    /\ UNCHANGED <<hideout, heap, markers, returned, initial>>

Call0(f) == StyleCall("function0", f, function0(f, [hideout |-> hideout], heap))

Call1(f, l) ==
    MarkerCall("function1", f, l, function1(f, l, [hideout |-> hideout], heap))

Call2(f) ==
    TooltipCall("function2", f, function2(f, NoLayer, [hideout |-> hideout]))

Call3(f) ==
    TooltipCall("function3", f, function3(f, NoLayer, [hideout |-> hideout]))

Call4(f, l) ==
    MarkerCall("function4", f, l, function4(f, l, [hideout |-> hideout], heap))

Call5(f) == StyleCall("function5", f, function5(f, [hideout |-> hideout], heap))

Next ==
    \/ \E f \in ColorFeatures : Call0(f)
    \/ \E f \in ColorFeatures, l \in LatLngs : Call1(f, l)
    \/ \E f \in PointFeatures : Call2(f)
    \/ \E f \in AggregateFeatures : Call3(f)
    \/ \E f \in ScaleFeatures, l \in LatLngs : Call4(f, l)
    \/ \E f \in ScaleFeatures : Call5(f)

Spec == Init /\ [][Next]_vars

-----------------------------------------------------------------------------
(* Properties *)

(* the value the last call read from feature.properties[colorProp] *)
Value == Get(call.arg.properties, hideout.colorProp)

(* the 0-based indices i with value == classes[i] *)
Matches ==
    {i \in 0..(Len(hideout.classes) - 1) : LooseEq(Value, Index(hideout.classes, i))}

First(S) == CHOOSE i \in S : \A j \in S : i <= j

Last(S) == CHOOSE i \in S : \A j \in S : j <= i

StyleFill == heap[hideout.style].fillColor

OptionsFill == heap[hideout.circleOptions].fillColor

(* the property key the last call used on color_dict *)
Key == ToStringJS(Value)

(* C1: after function0, if the property value loosely equals exactly one   *)
(* entry classes[i], the returned style has fillColor colorscale[i].       *)
C1_UniqueMatch ==
    (call.fn = "function0" /\ Cardinality(Matches) = 1)
        => \A i \in Matches :
               heap[call.ret.ref].fillColor = Index(hideout.colorscale, i)

(* a function0 call whose value matched only the second class and changed *)
(* the fill color                                                          *)
C1_Witness ==
    /\ call.fn = "function0"
    /\ Matches = {1}
    /\ StyleFill = Str("blue")
    /\ call.pre # StyleFill

(* C2 as stated: with several matching entries the fill color is the one   *)
(* of the FIRST matching index.                                            *)
C2_FirstMatch ==
    (call.fn = "function0" /\ Cardinality(Matches) >= 2)
        => StyleFill = Index(hideout.colorscale, First(Matches))

(* C2 amended: with several matching entries the fill color is the one of  *)
(* the LAST matching index, every match overwriting the previous one.      *)
C2_LastMatch ==
    (call.fn = "function0" /\ Cardinality(Matches) >= 2)
        => StyleFill = Index(hideout.colorscale, Last(Matches))

(* a function0 call with two matching entries that carry different colors *)
C2_Witness ==
    /\ call.fn = "function0"
    /\ Cardinality(Matches) >= 2
    /\ Index(hideout.colorscale, First(Matches))
           # Index(hideout.colorscale, Last(Matches))
    /\ StyleFill = Index(hideout.colorscale, Last(Matches))

(* C3: after function0 on a value matching no class, the fill color is the *)
(* one the style had immediately before the call, and no error is raised.  *)
C3_NoMatchUnchanged ==
    (call.fn = "function0" /\ Matches = {})
        => /\ StyleFill = call.pre
           /\ call.err = "none"

(* an unmatched function0 call on a style an earlier call had colored *)
C3_Witness ==
    /\ call.fn = "function0"
    /\ Matches = {}
    /\ call.pre = Str("red")
    /\ StyleFill = Str("red")

(* the fill color the last call resolves when it is the first call made    *)
(* with the context                                                        *)
ResolvedFirst ==
    IF call.fn = "function0"
    THEN function0(call.arg, [hideout |-> hideout],
                   initial.heap).heap[hideout.style].fillColor
    ELSE function1(call.arg, call.latlng, [hideout |-> hideout],
                   initial.heap).heap[hideout.circleOptions].fillColor

(* the fill color the last category-resolver call resolved *)
Resolved == IF call.fn = "function0" THEN StyleFill ELSE call.ret.fillColor

(* C4 as stated: the color a category resolver resolves for a feature does *)
(* not depend on the earlier calls made with the same context.             *)
C4_Stateless ==
    call.fn \in {"function0", "function1"} => Resolved = ResolvedFirst

(* C4 amended: the resolved color is independent of earlier calls for      *)
(* function1 and for function0 on a value that matches a class; function0  *)
(* on an unmatched value yields the fill color the shared style held       *)
(* before the call.                                                        *)
C4_StatelessWhenMatched ==
    /\ (call.fn = "function1" \/ (call.fn = "function0" /\ Matches # {}))
           => Resolved = ResolvedFirst
    /\ (call.fn = "function0" /\ Matches = {}) => Resolved = call.pre

(* a function1 call on a missing key made after a call that had assigned a *)
(* color                                                                   *)
C4_Witness ==
    /\ call.fn = "function1"
    /\ Key \notin DOMAIN hideout.color_dict
    /\ call.pre = Str("#222")
    /\ Resolved = Undef

(* C5: the marker variants leave hideout.circleOptions as it was and hand  *)
(* every marker an options object of its own.                              *)
C5_OptionsCopied ==
    /\ heap[hideout.circleOptions] = initial.heap[hideout.circleOptions]
    /\ hideout.circleOptions \notin markers

(* C6: of the style object only fillColor ever changes, and the feature    *)
(* and the tables of the hideout are left as they were.                    *)
C6_OnlyFillColor ==
    /\ DOMAIN heap[hideout.style] = DOMAIN initial.heap[hideout.style]
    /\ \A field \in DOMAIN heap[hideout.style] \ {"fillColor"} :
           heap[hideout.style][field] = initial.heap[hideout.style][field]
    /\ call.feature = call.arg
    /\ hideout = initial.hideout

(* function5 has written a color into the style *)
C6_Witness ==
    /\ call.fn = "function5"
    /\ StyleFill.k = "chroma"
    /\ StyleFill # initial.heap[hideout.style].fillColor

(* C7: function1 creates the marker at latlng with fill color              *)
(* color_dict[value], undefined when value is not a key, and raises no     *)
(* error.                                                                  *)
C7_MarkerFill ==
    call.fn = "function1"
        => /\ call.ret.k = "marker"
           /\ call.ret.latlng = call.latlng
           /\ call.ret.fillColor = (IF Key \in DOMAIN hideout.color_dict
                                    THEN hideout.color_dict[Key]
                                    ELSE Undef)
           /\ call.err = "none"

(* a function1 call on a numeric value that hits the key "1" *)
C7_Witness ==
    /\ call.fn = "function1"
    /\ Value = Num(1000)
    /\ call.ret.fillColor = Str("#111")
    /\ call.ret.latlng = "p2"

(* the decimal-formatted properties of the last tooltip call *)
Formatted ==
    IF call.fn = "function2"
    THEN {Get(call.arg.properties, "mean_velocity"),
          Get(call.arg.properties, "mp_label_prob")}
    ELSE {Get(call.arg.properties, "mean_velocity"),
          Get(call.arg.properties, "label_prob")}

(* C8: a tooltip formatter given a decimal-formatted property that is      *)
(* missing or not a number fails with an error and binds no tooltip.       *)
C8_TooltipThrows ==
    (call.fn \in {"function2", "function3"} /\ \E v \in Formatted : v.k # "number")
        => /\ call.err = "TypeError"
           /\ call.layer = NoLayer

(* a function3 call whose mean_velocity is a string *)
C8_Witness ==
    /\ call.fn = "function3"
    /\ Get(call.arg.properties, "mean_velocity") = Str("1")
    /\ Get(call.arg.properties, "label_prob") = Num(3456)
    /\ call.err = "TypeError"

(* the fill color the last style call leaves in the style *)
StyleFillAfter ==
    IF call.fn = "function5"
    THEN Csc(hideout.colorscale, hideout.min, hideout.max, Value)
    ELSE IF Matches # {} THEN Index(hideout.colorscale, Last(Matches))
    ELSE call.pre

(* C10: function0 and function5 return hideout.style itself, so every      *)
(* style returned so far is that one object and shows the fill color left  *)
(* by the latest call.                                                     *)
C10_ReturnsSharedStyle ==
    /\ returned \subseteq {hideout.style}
    /\ call.fn \in {"function0", "function5"}
           => /\ call.ret.ref = hideout.style
              /\ \A r \in returned : heap[r].fillColor = StyleFillAfter

(* an unmatched function0 call returns the style still colored by an       *)
(* earlier function5 call                                                  *)
C10_Witness ==
    /\ call.fn = "function0"
    /\ Matches = {}
    /\ returned = {hideout.style}
    /\ heap[call.ret.ref].fillColor.k = "chroma"

====
